---- MODULE Spec2Model ----
(***************************************************************************)
(* dj.chain: the lazy chain of src/dj/chain/__init__.py.                   *)
(*                                                                         *)
(* A chain is a record of its attributes (iterables, xfilter, xform, xkey, *)
(* start, stop, step).  Its traversal, chain.__iter__, is a generator: the *)
(* position of the generator is the state (gen, index, out), and one       *)
(* action is one turn of the loop of line 153.  The other methods are      *)
(* operators on chain records, applied by one action per call.             *)
(***************************************************************************)
EXTENDS Integers, Sequences, FiniteSets

\* ------------------------------------------------------------------ bounds

\* Most iterables a chain is built from.
MaxSources == 2
\* Most elements the iterables of one chain hold together.
MaxTotal == 3
\* Largest value of a slice's start, stop and step and of an integer index.
MaxBound == 2

\* ------------------------------------------------------------------ values

\* Python's None and an int n, as the values of start, stop and step.
None == <<>>
Some(n) == <<n>>

\* Python's truth value of None or an int: `self.start and ...`, `not self.stop`.
Truthy(x) == x # None /\ x[1] # 0

\* `self.start or 0` (line 156).
OrZero(x) == IF Truthy(x) THEN x[1] ELSE 0

\* Elements are objects with a numeric attribute score, one of the three
\* scores of the specification's scenarios.
Scores == 1..3
Elem == [score : Scores]

SeqsUpTo(S, n) == UNION {[1..k -> S] : k \in 0..n}

\* What an iterable is:
\*   "list"        a list: len(), but no count() without argument, and no
\*                 filter, exclude or order_by
\*   "iterable"    an object that only iterates: no len() either
\*   "queryset"    a queryset: count(), len(), filter, exclude, order_by
\*   "fielderror"  a queryset whose filter, exclude and order_by raise
\*                 FieldError for the arguments given
\*   "valueerror"  a queryset whose filter, exclude and order_by raise
\*                 ValueError for the arguments given
Kinds == {"list", "iterable", "queryset", "fielderror", "valueerror"}
Source(items, kind) == [items |-> items, kind |-> kind]

RECURSIVE Sum(_)
Sum(ns) == IF ns = <<>> THEN 0 ELSE Head(ns) + Sum(Tail(ns))

\* The elements of flat cut into consecutive lists of the lengths lens.
RECURSIVE Split(_, _)
Split(flat, lens) ==
    IF lens = <<>> THEN <<>>
    ELSE <<Source(SubSeq(flat, 1, Head(lens)), "list")>>
         \o Split(SubSeq(flat, Head(lens) + 1, Len(flat)), Tail(lens))

\* The lists a chain is built from: at most MaxSources of them, holding at
\* most MaxTotal elements together.
ListConfigs ==
    {Split(flat, lens) :
        <<flat, lens>> \in
            {fl \in SeqsUpTo(Elem, MaxTotal) \X SeqsUpTo(0..MaxTotal, MaxSources) :
                Sum(fl[2]) = Len(fl[1])}}

\* The same, each list or an iterable of one of the kinds.
KindConfigs(kinds) ==
    UNION {{[i \in 1..Len(its) |-> Source(its[i].items, ks[i])] :
               ks \in [1..Len(its) -> kinds]} : its \in ListConfigs}

\* ------------------------------------------------------------------ hooks

\* chain.xfilter: the default (line 85, always True) or an override.
XFilters == {"default", "ge2", "never"}

\* self.xfilter(value), lines 118 and 150.
XFilter(f, v) ==
    CASE f = "default" -> TRUE
      [] f = "ge2"     -> v.score >= 2
      [] OTHER         -> FALSE

\* self.xfilter() with no argument, line 199: the default returns True, an
\* override taking one positional argument raises TypeError.
XFilterNoArg(f) == IF f = "default" THEN "True" ELSE "TypeError"

\* chain.xform: the default (line 79, identity) or an override.
XForms == {"default", "bump"}

\* self.xform(value), lines 160 and 179.
XForm(f, v) == IF f = "default" THEN v ELSE [score |-> v.score + 10]

\* A name is a string, here the tuple of its parts: 'score' is <<"score">>
\* and '-score' is <<"-", "score">>.
\* chain.xkey is a record: kind "default" (line 94), "custom" (an override,
\* of the name args[1]) or "order_by" (the closure of line 261 over the field
\* names args).
DefaultKey == [kind |-> "default", args |-> <<>>]
CustomKey(name) == [kind |-> "custom", args |-> <<<<name>>>>]
OrderByKey(args) == [kind |-> "order_by", args |-> args]

\* name.startswith('-'), line 257.
StartsWithMinus(name) == name # <<>> /\ name[1] = "-"

\* getattr(value, name), lines 258 and 260: an element is a record of its
\* attributes.
GetAttr(v, name) == v[name]

\* Mutant of FieldKey: the '-' is dropped but the value is not negated.
FieldKeyNotNegated(v, name) ==
    IF StartsWithMinus(name) THEN GetAttr(v, name[2])
    ELSE GetAttr(v, name[1])

\* One field of the key built by order_by, lines 256-260.
FieldKey(v, name) ==
    IF StartsWithMinus(name) THEN 0 - GetAttr(v, name[2])
    ELSE GetAttr(v, name[1])

\* self.xkey(value), line 136.  A custom key returns a number, the key of
\* order_by a list of numbers; both are given as sequences, a number n as
\* <<n>>, which Python orders the same way.
XKey(k, v) ==
    CASE k.kind = "order_by" -> [i \in 1..Len(k.args) |-> FieldKey(v, k.args[i])]
      [] k.kind = "custom" /\ k.args[1] = <<"half">> -> <<v.score \div 2>>
      [] OTHER -> <<v.score>>

\* Python's < on two lists of numbers of the same length.
RECURSIVE KeyLess(_, _)
KeyLess(a, b) ==
    IF a = <<>> \/ b = <<>> THEN a = <<>> /\ b # <<>>
    ELSE IF Head(a) # Head(b) THEN Head(a) < Head(b)
    ELSE KeyLess(Tail(a), Tail(b))

\* chain.ordered, lines 264-269: xkey() with no argument returns unset for the
\* default, and raises TypeError for any key taking one positional argument.
Ordered(c) == c.xkey.kind # "default"

\* ------------------------------------------------------------------ chain

\* chain.__init__, lines 72-76, with the class's default hooks, lines 78-99.
Chain(iterables) ==
    [iterables |-> iterables, xfilter |-> "default", xform |-> "default",
     xkey |-> DefaultKey, start |-> None, stop |-> None, step |-> None]

\* chain.copy, lines 101-113: `if not iterables: iterables = self.iterables`.
Copy(c, iterables) ==
    [Chain(IF iterables = <<>> THEN c.iterables ELSE iterables) EXCEPT
        !.xfilter = c.xfilter, !.xform = c.xform, !.xkey = c.xkey,
        !.start = c.start, !.stop = c.stop, !.step = c.step]

\* ------------------------------------------------------------------ __iter__

\* Mutant of FilteredNext: the next element is taken whether or not it passes.
FilteredNextUnfiltered(c, items, p) ==
    IF p >= Len(items) THEN [found |-> FALSE, pos |-> p]
    ELSE [found |-> TRUE, pos |-> p + 1]

\* chain._filtered_next, lines 115-120, and the loop of lines 149-151: pull
\* from the iterator, of which p elements were pulled, until an element
\* passes xfilter (found, at position pos) or the iterator is exhausted.
RECURSIVE FilteredNext(_, _, _)
FilteredNext(c, items, p) ==
    IF p >= Len(items) THEN [found |-> FALSE, pos |-> p]
    ELSE IF XFilter(c.xfilter, items[p + 1]) THEN [found |-> TRUE, pos |-> p + 1]
    ELSE FilteredNext(c, items, p + 1)

\* The generator _gen before its first next(): nothing pulled, no candidate.
\*   pos[i]   elements pulled from iterable i
\*   src      unordered mode: the iterable the loop of line 148 is at
\*   live     ordered mode: the iterables whose iterator is a key of candidates
\*   cand[i]  ordered mode: candidates[iterator i][0]
\*   last     the iterable the last yielded element came from (0: none)
NewGen(c) ==
    [started |-> FALSE, src |-> 1, last |-> 0, live |-> {},
     pos |-> [i \in 1..Len(c.iterables) |-> 0],
     cand |-> [i \in 1..Len(c.iterables) |-> None]]

\* Unordered _gen, lines 147-152, resumed: to its next yield, or to its end
\* (yield None).
RECURSIVE UnorderedNext(_, _)
UnorderedNext(c, g) ==
    IF g.src > Len(c.iterables) THEN [gen |-> g, yield |-> None]
    ELSE LET items == c.iterables[g.src].items
             r == FilteredNext(c, items, g.pos[g.src])
         IN  IF r.found
             THEN [gen |-> [g EXCEPT !.pos[g.src] = r.pos, !.last = g.src],
                   yield |-> Some(items[r.pos])]
             ELSE UnorderedNext(c, [g EXCEPT !.pos[g.src] = r.pos,
                                             !.src = g.src + 1])

\* Mutant of Refill: an iterator that had a candidate is deleted from
\* candidates, as if it were exhausted.
RefillDeletes(c, g, i) ==
    LET items == c.iterables[i].items
        r == FilteredNext(c, items, g.pos[i])
    IN  IF r.found /\ g.cand[i] = None
        THEN [g EXCEPT !.pos[i] = r.pos, !.cand[i] = Some(items[r.pos]),
                       !.live = @ \cup {i}]
        ELSE [g EXCEPT !.pos[i] = r.pos, !.cand[i] = None, !.live = @ \ {i}]

\* Mutant of Refill: _filtered_next is called twice, and the second element
\* is the candidate.
RefillReadsAhead(c, g, i) ==
    LET items == c.iterables[i].items
        r1 == FilteredNext(c, items, g.pos[i])
        r == IF r1.found THEN FilteredNext(c, items, r1.pos) ELSE r1
    IN  IF r.found
        THEN [g EXCEPT !.pos[i] = r.pos, !.cand[i] = Some(items[r.pos]),
                       !.live = @ \cup {i}]
        ELSE [g EXCEPT !.pos[i] = r.pos, !.cand[i] = None, !.live = @ \ {i}]

\* Lines 129-132 and 141-145: candidates[iterator] = [_filtered_next(iterator),
\* iterator], or on StopIteration the iterator is left out of (deleted from)
\* candidates.
Refill(c, g, i) ==
    LET items == c.iterables[i].items
        r == FilteredNext(c, items, g.pos[i])
    IN  IF r.found
        THEN [g EXCEPT !.pos[i] = r.pos, !.cand[i] = Some(items[r.pos]),
                       !.live = @ \cup {i}]
        ELSE [g EXCEPT !.pos[i] = r.pos, !.cand[i] = None, !.live = @ \ {i}]

\* Lines 125-132: the first candidate of every iterable, in Source Set order.
RECURSIVE Prime(_, _, _)
Prime(c, g, i) ==
    IF i > Len(c.iterables) THEN g ELSE Prime(c, Refill(c, g, i), i + 1)

\* Mutant of MinCandidate: the first candidate of the dict, whatever its key.
FirstCandidate(c, g, order) ==
    CHOOSE i \in g.live : \A j \in g.live \ {i} : order[i] < order[j]

\* Lines 135-136: min(candidates.viewvalues(), key=...) returns the first
\* candidate, in the dict's iteration order, that no other is less than.  The
\* dict is keyed by the iterator objects, so its order is the order of their
\* hashes (addresses): order[i] is the rank of iterable i's iterator in it.
MinCandidate(c, g, order) ==
    CHOOSE i \in g.live :
        \A j \in g.live \ {i} :
            LET ki == XKey(c.xkey, g.cand[i][1])
                kj == XKey(c.xkey, g.cand[j][1])
            IN  KeyLess(ki, kj) \/ (~KeyLess(kj, ki) /\ order[i] < order[j])

\* Ordered _gen, lines 124-145, resumed: to its next yield, or to its end.
OrderedNext(c, g, order) ==
    LET g1 == IF ~g.started THEN Prime(c, [g EXCEPT !.started = TRUE], 1)
              ELSE Refill(c, g, g.last)
    IN  IF g1.live = {} THEN [gen |-> g1, yield |-> None]
        ELSE LET i == MinCandidate(c, g1, order)
             IN  [gen |-> [g1 EXCEPT !.last = i], yield |-> g1.cand[i]]

\* next(_gen()), line 153.
GenNext(c, g, order) ==
    IF Ordered(c) THEN OrderedNext(c, g, order) ELSE UnorderedNext(c, g)

\* Lines 154-160: what the loop does with the element numbered index.
Outer(c, index) ==
    IF Truthy(c.start) /\ index < c.start[1] THEN "continue"
    ELSE IF Truthy(c.step) /\ (index - OrZero(c.start)) % c.step[1] # 0
         THEN "continue"
    ELSE IF Truthy(c.stop) /\ index >= c.stop[1] THEN "break"
    ELSE "yield"

\* A traversal before its first step.  hist is a history: every element _gen
\* has yielded, with the iterable it came from and what line 153's loop did
\* with it.
NewIter(c) ==
    [pc |-> "iter", gen |-> NewGen(c), index |-> 0, out |-> <<>>,
     hist |-> <<>>, what |-> "none"]

\* One turn of the loop of lines 153-160 of a traversal t that has not ended.
IterStep(c, t, order) ==
    LET n == GenNext(c, t.gen, order)
        w == IF n.yield = None THEN "exhausted" ELSE Outer(c, t.index)
    IN  [pc |-> IF w \in {"exhausted", "break"} THEN "done" ELSE "iter",
         gen |-> n.gen,
         index |-> IF w = "exhausted" THEN t.index ELSE t.index + 1,
         out |-> IF w = "yield"
                 THEN Append(t.out, XForm(c.xform, n.yield[1])) ELSE t.out,
         hist |-> IF w = "exhausted" THEN t.hist
                  ELSE Append(t.hist, [src |-> n.gen.last, elem |-> n.yield[1],
                                       did |-> w]),
         what |-> w]

\* The traversal run to its end, as list(e for e in chain) runs it.
RECURSIVE IterRun(_, _, _)
IterRun(c, t, order) ==
    IF t.pc = "done" THEN t ELSE IterRun(c, IterStep(c, t, order), order)

\* What a whole traversal of c yields when its dict has this order.
IterList(c, order) == IterRun(c, NewIter(c), order).out

\* The orders a dict of n iterators can have.
Orders(n) ==
    {o \in [1..n -> 1..n] : \A i, j \in 1..n : o[i] = o[j] => i = j}

\* ------------------------------------------------------------------ calls

\* A method applied to the chain c gives [self |-> c after the call,
\* ret |-> what the call returned or raised].  pulled counts the elements
\* the call pulled from the iterables; fresh tells that the chain returned is
\* an object the call built (chain(...), lines 106 and 249), not c itself.

\* c.copy(), lines 101-113, called with no iterables.
CopyOf(c) ==
    [self |-> c,
     ret |-> [kind |-> "chain", pulled |-> 0, fresh |-> TRUE,
              chain |-> Copy(c, <<>>)]]

\* Line 164-166: `key.start and key.start < 0`.
Negative(x) == Truthy(x) /\ x[1] < 0

\* Mutant of GetItemSlice: only the start is tested for being negative.
GetItemSliceStartOnly(c, a, b, s) ==
    IF Negative(a)
    THEN [self |-> c, ret |-> [kind |-> "ValueError", pulled |-> 0]]
    ELSE [self |-> c,
          ret |-> [kind |-> "chain", pulled |-> 0, fresh |-> TRUE,
                   chain |-> [Copy(c, <<>>) EXCEPT !.start = a, !.stop = b,
                                                   !.step = s]]]

\* x + y of two bounds, None when both are.
Plus(x, y) ==
    IF x = None THEN y ELSE IF y = None THEN x ELSE Some(x[1] + y[1])

\* Mutant of GetItemSlice: the slice is taken of the chain's own range, its
\* start added to the new start and stop.
GetItemSliceComposed(c, a, b, s) ==
    IF Negative(a) \/ Negative(b) \/ Negative(s)
    THEN [self |-> c, ret |-> [kind |-> "ValueError", pulled |-> 0]]
    ELSE [self |-> c,
          ret |-> [kind |-> "chain", pulled |-> 0, fresh |-> TRUE,
                   chain |-> [Copy(c, <<>>) EXCEPT
                                 !.start = Plus(c.start, a),
                                 !.stop = IF b = None THEN c.stop
                                          ELSE Plus(c.start, b),
                                 !.step = s]]]

\* chain.__getitem__ with a slice(a, b, s), lines 163-171 and 185.
GetItemSlice(c, a, b, s) ==
    IF Negative(a) \/ Negative(b) \/ Negative(s)
    THEN [self |-> c, ret |-> [kind |-> "ValueError", pulled |-> 0]]
    ELSE [self |-> c,
          ret |-> [kind |-> "chain", pulled |-> 0, fresh |-> TRUE,
                   chain |-> [Copy(c, <<>>) EXCEPT !.start = a, !.stop = b,
                                                   !.step = s]]]

\* Lines 177-179: the traversal run until it has yielded more than n elements,
\* or to its end.
RECURSIVE IterUntil(_, _, _, _)
IterUntil(c, t, order, n) ==
    IF t.pc = "done" \/ Len(t.out) > n THEN t
    ELSE IterUntil(c, IterStep(c, t, order), order, n)

\* chain.__getitem__ with an int key, lines 172-180; order is the order of the
\* candidates dict of the traversal it makes.  applied lists the elements
\* self.xform was called on: the traversal is of a copy whose xform is the
\* lambda of line 176.
GetItemInt(c, key, order) ==
    IF key < 0
    THEN [self |-> c, ret |-> [kind |-> "ValueError", pulled |-> 0]]
    ELSE LET self_without_transform == [Copy(c, <<>>) EXCEPT !.xform = "default"]
             t == IterUntil(self_without_transform,
                            NewIter(self_without_transform), order, key)
         IN  IF Len(t.out) > key
             THEN [self |-> c,
                   ret |-> [kind |-> "elem", pulled |-> Sum(t.gen.pos),
                            elem |-> XForm(c.xform, t.out[key + 1]),
                            applied |-> <<t.out[key + 1]>>]]
             ELSE [self |-> c,
                   ret |-> [kind |-> "IndexError", pulled |-> Sum(t.gen.pos),
                            applied |-> <<>>]]

\* One part of chain.__len_parts__, lines 189-195: a queryset answers
\* count(); a list's count() raises TypeError (it wants an argument) and its
\* len() answers; an iterable with neither is made a list and counted.
LenPart(src) ==
    CASE src.kind \in {"queryset", "fielderror", "valueerror"} -> Len(src.items)
      [] src.kind = "list" -> Len(src.items)
      [] OTHER -> Len([i \in 1..Len(src.items) |-> src.items[i]])

\* Mutant of LenParts: the last iterable is left out.
LenPartsButLast(c) ==
    [i \in 1..(Len(c.iterables) - 1) |-> LenPart(c.iterables[i])]

\* chain.__len_parts__, lines 187-195.
LenParts(c) == [i \in 1..Len(c.iterables) |-> LenPart(c.iterables[i])]

\* The test of lines 199-202; a TypeError of self.xfilter() is caught at
\* line 208 and leads to the slow path as well.
FastLen(c) ==
    /\ XFilterNoArg(c.xfilter) = "True"
    /\ ~Truthy(c.start)
    /\ ~Truthy(c.stop)
    /\ (~Truthy(c.step) \/ c.step = Some(1))

\* Lines 211-214: length is the last index enumerate gave, or still 0.
SlowLen(c, order) ==
    LET t == IterRun(c, NewIter(c), order)
        length == IF t.out = <<>> THEN 0 ELSE Len(t.out) - 1
    IN  length + 1

\* chain.__len__, lines 197-214.
LenOf(c, order) ==
    IF FastLen(c)
    THEN [self |-> c, ret |-> [kind |-> "int", value |-> Sum(LenParts(c))]]
    ELSE [self |-> c, ret |-> [kind |-> "int", value |-> SlowLen(c, order)]]

\* chain.count, lines 228-231.
Count(c, order) == LenOf(c, order)

\* chain.exists, lines 238-241: bool(len(self)).
Exists(c, order) ==
    LET n == LenOf(c, order)
    IN  [self |-> n.self, ret |-> [kind |-> "bool", value |-> n.ret.value # 0]]

\* Mutant of NoneOf: a copy of the chain, which keeps its iterables.
NoneOfCopy(c) ==
    [self |-> c,
     ret |-> [kind |-> "chain", pulled |-> 0, fresh |-> TRUE,
              chain |-> Copy(c, <<>>)]]

\* chain.none, lines 248-249: chain(), a chain of the class itself, built
\* from no iterable.
NoneOf(c) ==
    [self |-> c,
     ret |-> [kind |-> "chain", pulled |-> 0, fresh |-> TRUE,
              chain |-> Chain(<<>>)]]

\* ------------------------------------------------------------------ pushdown

\* items with x put after the last element whose key is not greater.
RECURSIVE Insert(_, _, _)
Insert(k, x, items) ==
    IF items = <<>> THEN <<x>>
    ELSE IF KeyLess(XKey(k, x), XKey(k, Head(items))) THEN <<x>> \o items
    ELSE <<Head(items)>> \o Insert(k, x, Tail(items))

\* items in the order of the key k, equal keys in their order.
RECURSIVE SortBy(_, _)
SortBy(k, items) ==
    IF items = <<>> THEN <<>>
    ELSE Insert(k, items[Len(items)], SortBy(k, SubSeq(items, 1, Len(items) - 1)))

\* What a queryset's method returns: filter(score__gte=n) and
\* exclude(score__gte=n), args = <<n>>, and order_by(*args).
QuerysetMethod(items, method, args) ==
    CASE method = "filter" -> SelectSeq(items, LAMBDA v : v.score >= args[1])
      [] method = "exclude" -> SelectSeq(items, LAMBDA v : ~(v.score >= args[1]))
      [] OTHER -> SortBy(OrderByKey(args), items)

\* getattr(it, _method)(*args, **kwargs), line 220.
Invoke(src, method, args) ==
    CASE src.kind \in {"list", "iterable"} -> [raised |-> "AttributeError"]
      [] src.kind = "fielderror" -> [raised |-> "FieldError"]
      [] src.kind = "valueerror" -> [raised |-> "ValueError"]
      [] OTHER -> [raised |-> "none",
                   value |-> Source(QuerysetMethod(src.items, method, args),
                                    src.kind)]

\* Mutant of Caught: only a missing method is caught.
CaughtAttributeError == {"AttributeError"}

\* Line 221: except (AttributeError, ValueError, FieldError).
Caught == {"AttributeError", "ValueError", "FieldError"}

\* chain._django_factory, lines 216-223.  An exception that is not caught
\* leaves the method.
DjangoFactory(c, method, args) ==
    LET n == Len(c.iterables)
        got == [i \in 1..n |-> Invoke(c.iterables[i], method, args)]
        new_iterables ==
            [i \in 1..n |-> IF got[i].raised = "none" THEN got[i].value
                            ELSE c.iterables[i]]
    IN  IF \E i \in 1..n : got[i].raised \notin Caught \cup {"none"}
        THEN [self |-> c,
              ret |-> [kind |-> got[CHOOSE i \in 1..n :
                                      /\ got[i].raised \notin Caught \cup {"none"}
                                      /\ \A j \in 1..(i - 1) :
                                            got[j].raised \in Caught \cup {"none"}
                                   ].raised,
                       pulled |-> 0]]
        ELSE [self |-> c,
              ret |-> [kind |-> "chain", pulled |-> 0, fresh |-> TRUE,
                       chain |-> Copy(c, new_iterables)]]

\* chain.filter, lines 243-246.
Filter(c, args) == DjangoFactory(c, "filter", args)

\* chain.exclude, lines 233-236.
Exclude(c, args) == DjangoFactory(c, "exclude", args)

\* Mutant of OrderBy: the key is set on self, which is returned.
OrderByInPlace(c, args) ==
    [self |-> [c EXCEPT !.xkey = OrderByKey(args)],
     ret |-> [kind |-> "chain", pulled |-> 0, fresh |-> FALSE,
              chain |-> [c EXCEPT !.xkey = OrderByKey(args)]]]

\* chain.order_by, lines 251-262.
OrderBy(c, args) ==
    LET r == DjangoFactory(c, "order_by", args)
    IN  IF r.ret.kind # "chain" THEN r
        ELSE [self |-> r.self,
              ret |-> [r.ret EXCEPT !.chain.xkey = OrderByKey(args)]]

\* ------------------------------------------------------------------ state

VARIABLES
    self,     \* the chain the calls are made on
    pc,       \* "idle", or the traversal's position: "iter", "done"
    gen,      \* the generator _gen of the traversal
    index,    \* enumerate's counter, line 153
    out,      \* what the traversal has yielded so far
    hist,     \* history: what _gen has yielded so far
    order,    \* the iteration order of the traversal's candidates dict
    what,     \* what the last turn of the loop did
    call,     \* the last call made on self, with its arguments
    result    \* what that call returned or raised

vars == <<self, pc, gen, index, out, hist, order, what, call, result>>

NoCall == [name |-> "none"]
NoResult == [kind |-> "none"]

\* The hooks a chain (or a subclass) overrides.
IterKeys == {DefaultKey, CustomKey("score"), CustomKey("half")}

WithHooks(c, f, m, k) == [c EXCEPT !.xfilter = f, !.xform = m, !.xkey = k]

\* The identity order, for the traversals that build no dict.
IdOrder(n) == [i \in 1..n |-> i]

NoTraversal(c) ==
    /\ pc = "idle"
    /\ gen = NewGen(c)
    /\ index = 0
    /\ out = <<>>
    /\ hist = <<>>
    /\ order = IdOrder(Len(c.iterables))
    /\ what = "none"

\* A chain over lists, its hooks overridden or not, no call made yet.
Init ==
    /\ \E its \in ListConfigs, f \in XFilters, m \in XForms, k \in IterKeys :
           self = WithHooks(Chain(its), f, m, k)
    /\ NoTraversal(self)
    /\ call = NoCall
    /\ result = NoResult

Cur ==
    [pc |-> pc, gen |-> gen, index |-> index, out |-> out, hist |-> hist,
     what |-> what]

\* iter(self), line 122: the generator is created, and nothing runs before
\* the first next().  The dict of an ordered traversal gets one of its orders.
IterBegin ==
    /\ pc = "idle"
    /\ pc' = "iter"
    /\ \E o \in Orders(Len(self.iterables)) :
           /\ Ordered(self) \/ o = IdOrder(Len(self.iterables))
           /\ order' = o
    /\ UNCHANGED <<self, gen, index, out, hist, what, call, result>>

\* The traversal moves to where the turn n of the loop leaves it.
Advance(n) ==
    /\ pc' = n.pc
    /\ gen' = n.gen
    /\ index' = n.index
    /\ out' = n.out
    /\ hist' = n.hist
    /\ what' = n.what
    /\ UNCHANGED <<self, order, call, result>>

\* One turn of the loop of line 153 that reaches line 160: the element is
\* yielded, transformed.
StepYield ==
    /\ pc = "iter"
    /\ IterStep(self, Cur, order).what = "yield"
    /\ Advance(IterStep(self, Cur, order))

\* One turn that ends at line 155 or 157: the element is skipped.
StepSkip ==
    /\ pc = "iter"
    /\ IterStep(self, Cur, order).what = "continue"
    /\ Advance(IterStep(self, Cur, order))

\* One turn that ends at line 159: the traversal ends at stop.
StepBreak ==
    /\ pc = "iter"
    /\ IterStep(self, Cur, order).what = "break"
    /\ Advance(IterStep(self, Cur, order))

\* _gen is exhausted: the loop of line 153, and the traversal, end.
StepExhaust ==
    /\ pc = "iter"
    /\ IterStep(self, Cur, order).what = "exhausted"
    /\ Advance(IterStep(self, Cur, order))

Next == IterBegin \/ StepYield \/ StepExhaust

Spec == Init /\ [][Next]_vars

\* ------------------------------------------------------------------ slices

\* What a slice's start, stop and step are drawn from: None or 0..MaxBound.
SliceVals == {None} \cup {Some(n) : n \in 0..MaxBound}

SliceFilters == {"default", "ge2"}
SliceKeys == {DefaultKey, CustomKey("half")}

\* c = chain(...)[a:b:s]: a chain over lists, its transform overridden, its
\* predicate and key overridden or not, sliced once.
InitSliced ==
    /\ \E its \in ListConfigs, f \in SliceFilters, k \in SliceKeys,
          a \in SliceVals, b \in SliceVals, s \in SliceVals :
           self = GetItemSlice(WithHooks(Chain(its), f, "bump", k),
                               a, b, s).ret.chain
    /\ NoTraversal(self)
    /\ call = NoCall
    /\ result = NoResult

NextSlice == IterBegin \/ StepYield \/ StepSkip \/ StepBreak \/ StepExhaust

\* The traversals of sliced chains.
SpecSlice == InitSliced /\ [][NextSlice]_vars

\* The order of the dict of a traversal a call makes.
CallOrders(c) ==
    {o \in Orders(Len(c.iterables)) : Ordered(c) \/ o = IdOrder(Len(c.iterables))}

\* A call r is made on self: it leaves self as r.self and returns r.ret.
Returns(r) ==
    /\ self' = r.self
    /\ result' = r.ret

\* self.count(), the first call made on self.
CallCount ==
    /\ pc = "idle" /\ call = NoCall
    /\ \E o \in CallOrders(self) : Returns(Count(self, o))
    /\ call' = [name |-> "count", args |-> <<>>]
    /\ UNCHANGED <<pc, gen, index, out, hist, order, what>>

\* self[key], key an int, the first call made on self.
CallGetItemInt ==
    /\ pc = "idle" /\ call = NoCall
    /\ \E key \in (0 - 1)..MaxBound, o \in CallOrders(self) :
           /\ Returns(GetItemInt(self, key, o))
           /\ call' = [name |-> "getitem", args |-> <<key>>]
    /\ UNCHANGED <<pc, gen, index, out, hist, order, what>>

NextCalls == CallCount \/ CallGetItemInt

\* count() and integer indexing of sliced chains.
SpecCalls == InitSliced /\ [][NextCalls]_vars

\* ------------------------------------------------------------------ indexing

\* What the start, stop and step of a slice given to chain[...] are drawn
\* from: None or -1..MaxBound.
KeyVals == {None} \cup {Some(n) : n \in (0 - 1)..MaxBound}

\* A chain over lists, its predicate and key overridden or not.
InitIndex ==
    /\ \E its \in ListConfigs, f \in SliceFilters, k \in SliceKeys :
           self = WithHooks(Chain(its), f, "default", k)
    /\ NoTraversal(self)
    /\ call = NoCall
    /\ result = NoResult

\* self[a:b:s], the first call made on self.
CallGetItemSlice ==
    /\ pc = "idle" /\ call = NoCall
    /\ \E a \in KeyVals, b \in KeyVals, s \in KeyVals :
           /\ Returns(GetItemSlice(self, a, b, s))
           /\ call' = [name |-> "getslice", args |-> <<a, b, s>>]
    /\ UNCHANGED <<pc, gen, index, out, hist, order, what>>

NextIndex == CallGetItemSlice \/ CallGetItemInt

\* Slicing and integer indexing, negative arguments included.
SpecIndex == InitIndex /\ [][NextIndex]_vars

\* ------------------------------------------------------------------ pushdown calls

PushKinds == {"list", "queryset", "fielderror", "valueerror"}

\* The field names order_by is called with: 'score' and '-score'.
OrderArgs == {<<<<"score">>>>, <<<<"-", "score">>>>}

\* The n of filter(score__gte=n) and exclude(score__gte=n).
LookupArgs == {<<2>>}

\* A chain over lists and querysets, its predicate and key overridden or not.
InitPush ==
    /\ \E its \in KindConfigs(PushKinds), f \in SliceFilters, k \in SliceKeys :
           self = WithHooks(Chain(its), f, "default", k)
    /\ NoTraversal(self)
    /\ call = NoCall
    /\ result = NoResult

\* self.filter(score__gte=n), the first call made on self.
CallFilter ==
    /\ pc = "idle" /\ call = NoCall
    /\ \E args \in LookupArgs :
           /\ Returns(Filter(self, args))
           /\ call' = [name |-> "filter", args |-> args]
    /\ UNCHANGED <<pc, gen, index, out, hist, order, what>>

\* self.exclude(score__gte=n), the first call made on self.
CallExclude ==
    /\ pc = "idle" /\ call = NoCall
    /\ \E args \in LookupArgs :
           /\ Returns(Exclude(self, args))
           /\ call' = [name |-> "exclude", args |-> args]
    /\ UNCHANGED <<pc, gen, index, out, hist, order, what>>

\* self.order_by(name), the first call made on self.
CallOrderBy ==
    /\ pc = "idle" /\ call = NoCall
    /\ \E args \in OrderArgs :
           /\ Returns(OrderBy(self, args))
           /\ call' = [name |-> "order_by", args |-> args]
    /\ UNCHANGED <<pc, gen, index, out, hist, order, what>>

NextPush == CallFilter \/ CallExclude \/ CallOrderBy

\* filter, exclude and order_by.
SpecPush == InitPush /\ [][NextPush]_vars

\* ------------------------------------------------------------------ fast count

LenKinds == {"list", "iterable", "queryset"}

\* A chain over lists, iterables and querysets, its predicate and key
\* overridden or not, as built or sliced [::1].
InitLen ==
    /\ \E its \in KindConfigs(LenKinds), f \in SliceFilters, k \in SliceKeys,
          s \in {None, Some(1)} :
           self = GetItemSlice(WithHooks(Chain(its), f, "default", k),
                               None, None, s).ret.chain
    /\ NoTraversal(self)
    /\ call = NoCall
    /\ result = NoResult

NextLen == CallCount

\* count().
SpecLen == InitLen /\ [][NextLen]_vars

\* ------------------------------------------------------------------ exists, none

\* self.exists(), the first call made on self.
CallExists ==
    /\ pc = "idle" /\ call = NoCall
    /\ \E o \in CallOrders(self) : Returns(Exists(self, o))
    /\ call' = [name |-> "exists", args |-> <<>>]
    /\ UNCHANGED <<pc, gen, index, out, hist, order, what>>

\* self.none(), the first call made on self.
CallNone ==
    /\ pc = "idle" /\ call = NoCall
    /\ Returns(NoneOf(self))
    /\ call' = [name |-> "none()", args |-> <<>>]
    /\ UNCHANGED <<pc, gen, index, out, hist, order, what>>

NextAnswers == CallExists \/ CallNone

\* exists() and none() of sliced chains.
SpecAnswers == InitSliced /\ [][NextAnswers]_vars

\* ------------------------------------------------------------------ transform

\* iter(self) on a chain no call was made on.
TraverseBegin ==
    /\ call = NoCall
    /\ IterBegin

NextXform ==
    \/ TraverseBegin \/ StepYield \/ StepSkip \/ StepBreak \/ StepExhaust
    \/ CallGetItemInt

\* A traversal, or an integer indexing, of a sliced chain whose transform is
\* overridden.
SpecXform == InitSliced /\ [][NextXform]_vars

\* ------------------------------------------------------------------ chained calls

\* A chain over one list or queryset, its predicate and transform
\* overridden.
InitOps ==
    /\ \E its \in KindConfigs({"list", "queryset"}) :
           /\ Len(its) = 1
           /\ self = WithHooks(Chain(its), "ge2", "bump", DefaultKey)
    /\ NoTraversal(self)
    /\ call = NoCall
    /\ result = NoResult

\* self.copy(), the first call made on self.
CallCopy ==
    /\ pc = "idle" /\ call = NoCall
    /\ Returns(CopyOf(self))
    /\ call' = [name |-> "copy", args |-> <<>>]
    /\ UNCHANGED <<pc, gen, index, out, hist, order, what>>

\* The next call is made on what the last one returned, as in
\* c.filter(...).order_by(...)[a:b]: the chain returned becomes self.  After
\* a call that returned no chain, the next call is made on self again.
Rebind ==
    /\ pc = "idle" /\ call # NoCall
    /\ self' = IF result.kind = "chain" THEN result.chain ELSE self
    /\ call' = NoCall
    /\ result' = NoResult
    /\ gen' = NewGen(self')
    /\ order' = IdOrder(Len(self'.iterables))
    /\ UNCHANGED <<pc, index, out, hist, what>>

NextOps ==
    \/ CallCopy \/ CallGetItemSlice \/ CallGetItemInt
    \/ CallFilter \/ CallExclude \/ CallOrderBy \/ CallNone
    \/ Rebind

\* Any sequence of copy, slicing, indexing, filter, exclude, order_by and
\* none, each called on the chain the one before returned.
SpecOps == InitOps /\ [][NextOps]_vars

\* ------------------------------------------------------------------ claims

NoBounds(c) == c.start = None /\ c.stop = None /\ c.step = None

\* The elements of items that pass the chain's predicate, in their order.
Passing(c, items) == SelectSeq(items, LAMBDA v : XFilter(c.xfilter, v))

\* The passing elements of the iterables i.. of c, one iterable after the other.
RECURSIVE PassingFrom(_, _)
PassingFrom(c, i) ==
    IF i > Len(c.iterables) THEN <<>>
    ELSE Passing(c, c.iterables[i].items) \o PassingFrom(c, i + 1)

Transformed(c, elems) == [i \in 1..Len(elems) |-> XForm(c.xform, elems[i])]

IsPrefix(a, b) == Len(a) <= Len(b) /\ a = SubSeq(b, 1, Len(a))

\* C1: in unordered mode with no bounds a traversal yields the passing
\* elements of the first iterable in their order, then those of the second,
\* and so on: at every point what was yielded is the beginning of that
\* sequence, and at the end it is all of it (nothing failing the predicate,
\* nothing dropped or duplicated).
C1_UnorderedConcatenates ==
    (pc \in {"iter", "done"} /\ ~Ordered(self) /\ NoBounds(self)) =>
        /\ IsPrefix(out, Transformed(self, PassingFrom(self, 1)))
        /\ pc = "done" => out = Transformed(self, PassingFrom(self, 1))

\* A finished unordered traversal of two iterables that both gave elements,
\* with an override predicate that dropped one.
C1_Witness ==
    /\ pc = "done" /\ ~Ordered(self) /\ NoBounds(self)
    /\ self.xfilter = "ge2"
    /\ Len(self.iterables) = 2
    /\ \E i, j \in 1..Len(hist) : hist[i].src = 1 /\ hist[j].src = 2
    /\ Len(out) = 2 /\ gen.pos[1] + gen.pos[2] = 3

\* The keys of the iterable's elements never decrease.
SortedByKey(c, items) ==
    \A i, j \in 1..Len(items) :
        i < j => ~KeyLess(XKey(c.xkey, items[j]), XKey(c.xkey, items[i]))

\* The elements the traversal has yielded to its consumer, untransformed.
Emitted == SelectSeq(hist, LAMBDA h : h.did = "yield")

\* C2: in ordered mode over iterables that are each sorted by the key, for
\* any predicate, the keys of the emitted elements never decrease, at every
\* point of the traversal.
C2_MergeIsSorted ==
    (Ordered(self) /\ \A s \in 1..Len(self.iterables) :
                          SortedByKey(self, self.iterables[s].items)) =>
        \A i, j \in 1..Len(Emitted) :
            i < j => ~KeyLess(XKey(self.xkey, Emitted[j].elem),
                              XKey(self.xkey, Emitted[i].elem))

\* A finished merge of the sorted lists [1, 3] and [2], which come out 1, 2, 3.
C2_Witness ==
    /\ pc = "done" /\ Ordered(self)
    /\ Len(self.iterables) = 2
    /\ self.iterables[1].items = <<[score |-> 1], [score |-> 3]>>
    /\ self.iterables[2].items = <<[score |-> 2]>>
    /\ [i \in 1..Len(Emitted) |-> Emitted[i].src] = <<1, 2, 1>>

\* C9: in ordered mode, when several candidates share the minimum key, the one
\* of the earliest iterable is emitted.  After an emission the candidates
\* still hold the emitted element, from iterable gen.last.
C9_TieGoesToFirstSource ==
    (Ordered(self) /\ pc \in {"iter", "done"} /\ gen.last \in gen.live) =>
        \A j \in gen.live :
            (XKey(self.xkey, gen.cand[j][1])
                = XKey(self.xkey, gen.cand[gen.last][1])) => gen.last <= j

\* C3: count() returns the number of elements a full traversal of the chain
\* yields, on the fast path and on the slow one, also when that is none.
C3_CountIsIterationLength ==
    call.name = "count" =>
        \A o \in CallOrders(self) : result.value = Len(IterList(self, o))

\* The chain with its bounds unset.
Unsliced(c) == [c EXCEPT !.start = None, !.stop = None, !.step = None]

\* The elements of full at the 0-based positions p, p + step, ... below stop.
RECURSIVE Pick(_, _, _, _)
Pick(full, p, stop, step) ==
    IF p >= stop \/ p >= Len(full) THEN <<>>
    ELSE <<full[p + 1]>> \o Pick(full, p + step, stop, step)

\* C4: for start <= stop, both non-negative (0 included), and a positive
\* step, a traversal of chain[start:stop:step] yields the elements at the
\* positions start, start + step, ... below stop of the unsliced chain's
\* output, in that order.  An omitted start is 0, an omitted step 1.
C4_SlicePicksPositions ==
    (/\ pc = "done"
     /\ self.stop # None
     /\ self.step # Some(0)
     /\ (self.start # None => self.start[1] <= self.stop[1])) =>
        out = Pick(IterList(Unsliced(self), order),
                   IF self.start = None THEN 0 ELSE self.start[1],
                   self.stop[1],
                   IF self.step = None THEN 1 ELSE self.step[1])

\* C5: for i >= 0, chain[i] is the element at position i of the list a full
\* traversal of the chain gives, and raises IndexError when the traversal
\* yields i elements or fewer.
C5_IndexMatchesList ==
    (call.name = "getitem" /\ call.args[1] >= 0) =>
        \A o \in CallOrders(self) :
            LET full == IterList(self, o)
                i == call.args[1]
            IN  IF i < Len(full)
                THEN result.kind = "elem" /\ result.elem = full[i + 1]
                ELSE result.kind = "IndexError"

\* The call just made has a negative argument: a slice with a negative start,
\* stop or step, or a negative index.
NegativeKey(cl) ==
    \/ cl.name = "getslice" /\ \E i \in 1..3 : cl.args[i] # None /\ cl.args[i][1] < 0
    \/ cl.name = "getitem" /\ cl.args[1] < 0

\* C6: slicing with a negative start, stop or step and indexing with a
\* negative index raise ValueError, pull no element from any iterable and
\* leave the chain (iterables, hooks, bounds) as it was.
C6_NegativeIsValueError ==
    [][NegativeKey(call') =>
          /\ result'.kind = "ValueError"
          /\ result'.pulled = 0
          /\ self' = self]_vars

\* A slice with a negative stop only, and a negative index, each refused on a
\* chain that has elements to pull.
C6_Witness ==
    /\ NegativeKey(call)
    /\ result.kind = "ValueError"
    /\ self.iterables # <<>> /\ self.iterables[1].items # <<>>
    /\ \/ call.name = "getitem"
       \/ call.name = "getslice" /\ call.args[1] = Some(1) /\ call.args[2] = Some(0 - 1)

\* What the traversal of c, its dict in order o, emits from iterable i.
SourceOutput(c, o, i) ==
    LET h == SelectSeq(IterRun(c, NewIter(c), o).hist, LAMBDA e : e.src = i)
    IN  [n \in 1..Len(h) |-> h[n].elem]

\* C7: filter, exclude and order_by never raise to the caller when an
\* iterable lacks the method (list) or its call raises ValueError or
\* FieldError: the new chain has that iterable unchanged at the same place,
\* and emits from it the passing elements of the original iterable; an
\* iterable that supports the method is replaced by the method's result.
C7_PushdownFallsBack ==
    call.name \in {"filter", "exclude", "order_by"} =>
        /\ result.kind = "chain"
        /\ Len(result.chain.iterables) = Len(self.iterables)
        /\ \A i \in 1..Len(self.iterables) :
              IF self.iterables[i].kind = "queryset"
              THEN result.chain.iterables[i] =
                       Source(QuerysetMethod(self.iterables[i].items,
                                             call.name, call.args), "queryset")
              ELSE /\ result.chain.iterables[i] = self.iterables[i]
                   /\ \A o \in CallOrders(result.chain) :
                         SourceOutput(result.chain, o, i)
                             = Passing(self, self.iterables[i].items)

\* filter(score__gte=2) on a chain of a queryset that raises FieldError and
\* one that filters: the first is kept, the second replaced.
C7_Witness ==
    /\ call.name = "filter" /\ result.kind = "chain"
    /\ Len(self.iterables) = 2
    /\ self.iterables[1].kind = "fielderror"
    /\ self.iterables[1].items = <<[score |-> 1], [score |-> 2]>>
    /\ result.chain.iterables[1] = self.iterables[1]
    /\ self.iterables[2].kind = "queryset"
    /\ self.iterables[2].items = <<[score |-> 1]>>
    /\ result.chain.iterables[2].items = <<>>

\* The sizes of the iterables of c, added up.
RECURSIVE SizesFrom(_, _)
SizesFrom(c, i) ==
    IF i > Len(c.iterables) THEN 0
    ELSE Len(c.iterables[i].items) + SizesFrom(c, i + 1)

\* C8: with the default predicate and no bounds (step unset or 1), ordered or
\* not, count() is the sum of the sizes of the iterables, which is the number
\* of elements a full traversal yields.
C8_FastCountIsSum ==
    (/\ call.name = "count"
     /\ self.xfilter = "default"
     /\ self.start = None /\ self.stop = None
     /\ self.step \in {None, Some(1)}) =>
        /\ result.value = SizesFrom(self, 1)
        /\ \A o \in CallOrders(self) : result.value = Len(IterList(self, o))

\* count() = 3 of an ordered chain[::1] of a queryset of two elements and an
\* iterable of one.
C8_Witness ==
    /\ call.name = "count" /\ result.value = 3
    /\ self.xfilter = "default" /\ Ordered(self) /\ self.step = Some(1)
    /\ Len(self.iterables) = 2
    /\ self.iterables[1].kind = "queryset" /\ Len(self.iterables[1].items) = 2
    /\ self.iterables[2].kind = "iterable"

Scenario312 == <<[score |-> 3], [score |-> 1], [score |-> 2]>>

Descending(elems) ==
    \A i, j \in 1..Len(elems) : i < j => elems[i].score >= elems[j].score

Occurrences(v, elems) == Cardinality({i \in 1..Len(elems) : elems[i] = v})

\* order_by('-score') was called on a chain of one iterable.
OrderByMinusScore ==
    /\ call.name = "order_by" /\ call.args = <<<<"-", "score">>>>
    /\ Len(self.iterables) = 1

\* order_by('-score') gave a chain in ordered mode whose key is the negated
\* score.
NegatedKeyInstalled ==
    /\ result.kind = "chain"
    /\ Ordered(result.chain)
    /\ \A v \in Elem : XKey(result.chain.xkey, v) = <<0 - v.score>>

\* C10 as stated: order_by('-score') on a chain over one iterable yields its
\* (passing) elements in descending score order, 3, 2, 1 for 3, 1, 2,
\* whether or not the iterable supports order_by; the key is the negated
\* field and the chain is in ordered mode.
C10_OrderByDescends ==
    OrderByMinusScore =>
        /\ NegatedKeyInstalled
        /\ \A o \in CallOrders(result.chain) :
              LET got == IterList(result.chain, o)
              IN  /\ Descending(got)
                  /\ (self.iterables[1].items = Scenario312
                         /\ self.xfilter = "default") =>
                        got = <<[score |-> 3], [score |-> 2], [score |-> 1]>>

\* C10 amended: the elements come out in descending score order when the
\* iterable supports order_by, and in the iterable's own order (3, 1, 2 for
\* 3, 1, 2) when it does not; in both cases the key is the negated field and
\* the chain is in ordered mode.
C10_OrderByDescendsIfPushed ==
    OrderByMinusScore =>
        /\ NegatedKeyInstalled
        /\ \A o \in CallOrders(result.chain) :
              LET got == IterList(result.chain, o)
                  passing == Passing(self, self.iterables[1].items)
              IN  IF self.iterables[1].kind = "queryset"
                  THEN /\ Descending(got)
                       /\ \A v \in Elem :
                             Occurrences(v, got) = Occurrences(v, passing)
                  ELSE got = passing

\* order_by('-score') on a chain over the list 3, 1, 2, which has no
\* order_by: a traversal of the new chain yields 3, 1, 2.
C10_Witness ==
    /\ OrderByMinusScore /\ result.kind = "chain"
    /\ self.iterables[1] = Source(Scenario312, "list")
    /\ self.xfilter = "default"
    /\ IterList(result.chain, IdOrder(1)) = Scenario312

\* C11: exists() returns whether count() is greater than zero, and so is
\* true exactly when a full traversal of the chain yields an element.
C11_ExistsIffYields ==
    call.name = "exists" =>
        \A o \in CallOrders(self) :
            /\ result.value = (Count(self, o).ret.value > 0)
            /\ result.value = (IterList(self, o) # <<>>)

\* C12: whatever the iterables, hooks and bounds of the chain, none() returns
\* a chain of no iterable: a full traversal of it yields nothing, its count()
\* is 0 and its exists() is false.
C12_NoneIsEmpty ==
    call.name = "none()" =>
        /\ result.kind = "chain"
        /\ result.chain.iterables = <<>>
        /\ \A o \in CallOrders(result.chain) :
              /\ IterList(result.chain, o) = <<>>
              /\ Count(result.chain, o).ret.value = 0
              /\ Exists(result.chain, o).ret.value = FALSE

\* none() of an ordered chain[0:2] with an override predicate and transform,
\* whose own traversal yields two elements.
C12_Witness ==
    /\ call.name = "none()" /\ result.kind = "chain"
    /\ Ordered(self) /\ self.xfilter = "ge2" /\ self.xform = "bump"
    /\ self.start = Some(0) /\ self.stop = Some(2) /\ self.step = None
    /\ Len(self.iterables) = 2
    /\ Len(IterList(self, IdOrder(2))) = 2
    /\ IterList(result.chain, IdOrder(0)) = <<>>

\* The position idx (0-based, over the passing elements) lies in the range
\* start, start + step, ... below stop; an unset start is 0, an unset step 1.
InRange(c, idx) ==
    LET first == IF c.start = None THEN 0 ELSE c.start[1]
    IN  /\ idx >= first
        /\ c.stop # None => idx < c.stop[1]
        /\ c.step # None => (idx - first) % c.step[1] = 0

\* C13: in a traversal the transform is applied exactly once to each yielded
\* element (a turn of the loop calls it when, and only when, it yields),
\* never to an element failing the predicate and never to one outside the
\* range start:stop:step; chain[i] calls it once, on the element it returns,
\* and on none of the elements it skipped.
C13_TransformOnlyYielded ==
    /\ (pc \in {"iter", "done"} /\ self.step # Some(0)) =>
          /\ out = Transformed(self, [n \in 1..Len(Emitted) |-> Emitted[n].elem])
          /\ \A n \in 1..Len(hist) :
                /\ XFilter(self.xfilter, hist[n].elem)
                /\ ~InRange(self, n - 1) => hist[n].did # "yield"
    /\ (call.name = "getitem" /\ result.kind = "elem") =>
          /\ Len(result.applied) = 1
          /\ result.elem = XForm(self.xform, result.applied[1])
          /\ \E o \in CallOrders(self) :
                LET plain == IterList([self EXCEPT !.xform = "default"], o)
                IN  /\ Len(plain) > call.args[1]
                    /\ result.applied[1] = plain[call.args[1] + 1]

\* a is a permutation of b.
SameElements(a, b) ==
    /\ Len(a) = Len(b)
    /\ \A n \in 1..Len(a) : Occurrences(a[n], a) = Occurrences(a[n], b)

\* What the traversal has emitted from iterable i so far.
EmittedFrom(i) ==
    LET h == SelectSeq(hist, LAMBDA e : e.src = i)
    IN  [n \in 1..Len(h) |-> h[n].elem]

\* C16: in ordered mode with no bounds, the iterables sorted or not, a full
\* traversal emits every passing element of every iterable exactly once: its
\* output is a permutation of the unordered traversal's, and the elements of
\* one iterable come out in that iterable's order.
C16_MergeLosesNothing ==
    (pc = "done" /\ Ordered(self) /\ NoBounds(self)) =>
        /\ SameElements(out, IterList([self EXCEPT !.xkey = DefaultKey],
                                      IdOrder(Len(self.iterables))))
        /\ \A i \in 1..Len(self.iterables) :
              EmittedFrom(i) = Passing(self, self.iterables[i].items)

\* A finished merge of the unsorted list [3, 1] and the list [2], with a
\* predicate that passes them all: the two iterables interleave.
C16_Witness ==
    /\ pc = "done" /\ Ordered(self) /\ NoBounds(self)
    /\ Len(self.iterables) = 2
    /\ self.iterables[1].items = <<[score |-> 3], [score |-> 1]>>
    /\ self.iterables[2].items = <<[score |-> 2]>>
    /\ self.xkey = CustomKey("score")
    /\ [n \in 1..Len(hist) |-> hist[n].elem.score] = <<2, 3, 1>>

\* The minimum was selected in the last turn of the loop: the candidates are
\* as they were at the selection, the selected one, of iterable gen.last,
\* still among them.
JustSelected == pc \in {"iter", "done"} /\ what \in {"yield", "continue", "break"}

\* C18: in ordered mode, each time the minimum is selected, candidates holds
\* one slot for every iterable that still has a passing element not emitted
\* before, holding the earliest such element; an exhausted iterable has no
\* slot; and no iterable was pulled beyond its candidate.
C18_OneCandidatePerSource ==
    (Ordered(self) /\ JustSelected) =>
        \A i \in 1..Len(self.iterables) :
            LET items == self.iterables[i].items
                passing == Passing(self, items)
                before == Len(EmittedFrom(i)) - (IF gen.last = i THEN 1 ELSE 0)
            IN  /\ (i \in gen.live) = (before < Len(passing))
                /\ i \in gen.live =>
                      /\ gen.cand[i] = Some(passing[before + 1])
                      /\ gen.pos[i] >= 1 /\ gen.pos[i] <= Len(items)
                      /\ items[gen.pos[i]] = passing[before + 1]
                      /\ Len(Passing(self, SubSeq(items, 1, gen.pos[i])))
                             = before + 1
                /\ i \notin gen.live =>
                      /\ gen.cand[i] = None
                      /\ gen.pos[i] = Len(items)

\* The second selection of a merge of [2, 1, 3], the predicate dropping 1,
\* with an empty list: one slot, holding 3, the list pulled to its end.
C18_Witness ==
    /\ Ordered(self) /\ JustSelected
    /\ self.xfilter = "ge2"
    /\ Len(self.iterables) = 2
    /\ self.iterables[1].items = <<[score |-> 2], [score |-> 1], [score |-> 3]>>
    /\ self.iterables[2].items = <<>>
    /\ Len(hist) = 2
    /\ gen.live = {1} /\ gen.cand[1] = Some([score |-> 3]) /\ gen.pos[1] = 3

\* C17: with stop = s >= 1, with or without a step, the traversal ends as
\* soon as the counter reaches s: the passing element at position s is the
\* last element pulled, so that never more than s + 1 passing elements are
\* pulled, the traversal is over once the element at position s was pulled,
\* and every passing element pulled from an iterable is one the loop was
\* given (no iterable is advanced past it).
C17_StopsAtStop ==
    (pc \in {"iter", "done"} /\ self.stop # None /\ self.stop[1] >= 1) =>
        /\ Len(hist) <= self.stop[1] + 1
        /\ Len(hist) = self.stop[1] + 1 => pc = "done" /\ what = "break"
        /\ \A i \in 1..Len(self.iterables) :
              Len(Passing(self, SubSeq(self.iterables[i].items, 1, gen.pos[i])))
                  = Len(EmittedFrom(i))

\* start, stop and step are each unset or a non-negative integer, and step,
\* if set, is not 0.
WellFormed(c) ==
    /\ \A x \in {c.start, c.stop, c.step} : x = None \/ x[1] >= 0
    /\ c.step # Some(0)

\* C14: every chain reached from construction by copy, slicing, filter,
\* exclude, order_by and none has start, stop and step unset or non-negative
\* and a step that is not 0, a slice that would break this being refused.
C14_BoundsWellFormed ==
    /\ WellFormed(self)
    /\ result.kind = "chain" => WellFormed(result.chain)
    /\ (call.name = "getslice"
           /\ ~WellFormed([self EXCEPT !.start = call.args[1],
                                        !.stop = call.args[2],
                                        !.step = call.args[3]])) =>
          result.kind = "ValueError"

\* The calls that are to leave the chain they are made on as it was.
Pure == {"copy", "getslice", "getitem", "filter", "exclude", "order_by", "none()"}

\* C15: copy, slicing, integer indexing, filter, exclude, order_by and none
\* leave the chain they are called on as it was (iterables, predicate,
\* transform, key, start, stop, step), and all but integer indexing return a
\* chain that is another object than the one they were called on.
C15_CallsLeaveSelf ==
    [][(call' # NoCall /\ call'.name \in Pure) =>
          /\ self' = self
          /\ (call'.name # "getitem" /\ result'.kind = "chain") => result'.fresh
          /\ call'.name \in Pure \ {"getitem", "getslice"} =>
                result'.kind = "chain"]_vars

\* order_by('-score') on a sliced chain that was filtered before: the chain
\* returned has the new key, self its own.
C15_Witness ==
    /\ call.name = "order_by" /\ result.kind = "chain" /\ result.fresh
    /\ self.xkey = OrderByKey(<<<<"score">>>>)
    /\ result.chain.xkey = OrderByKey(<<<<"-", "score">>>>)
    /\ self.start = Some(1) /\ self.stop = Some(2) /\ self.step = None
    /\ self.iterables[1].kind = "queryset"
    /\ Len(self.iterables[1].items) = 2
    /\ result.chain.iterables # self.iterables

\* C19: slicing a chain that has bounds gives a chain with the same
\* iterables, predicate, transform and key whose start, stop and step are the
\* ones of the new slice, the old bounds dropped: a traversal of
\* chain[a:b][c:d] yields what a traversal of chain[c:d] yields.
C19_SliceReplacesBounds ==
    (call.name = "getslice" /\ result.kind = "chain") =>
        /\ result.chain = [self EXCEPT !.start = call.args[1],
                                       !.stop = call.args[2],
                                       !.step = call.args[3]]
        /\ \A o \in CallOrders(self) :
              IterList(result.chain, o)
                  = IterList([Unsliced(self) EXCEPT !.start = call.args[1],
                                                    !.stop = call.args[2],
                                                    !.step = call.args[3]], o)

\* chain[1:2][0:2] over [2, 3, 2]: the new chain yields the first two
\* elements, where chain[1:2] yields the second only.
C19_Witness ==
    /\ call.name = "getslice" /\ result.kind = "chain"
    /\ self.start = Some(1) /\ self.stop = Some(2)
    /\ call.args = <<Some(0), Some(2), None>>
    /\ self.iterables[1].items = <<[score |-> 2], [score |-> 3], [score |-> 2]>>
    /\ IterList(self, IdOrder(1)) = <<[score |-> 13]>>
    /\ IterList(result.chain, IdOrder(1)) = <<[score |-> 12], [score |-> 13]>>

====
